---------------------------- MODULE Spec2Model ----------------------------
(***************************************************************************)
(* A model of RLGlue (src/rl_glue.py): the mediator between an experiment, *)
(* an agent and an environment.  The mediator's six attributes are the     *)
(* state; every public method is an action; rl_episode, whose body is a    *)
(* loop around calls into the collaborators, is an action per loop         *)
(* iteration with its position in pc.  The agent and the environment are   *)
(* abstract in the source (BaseAgent, BaseEnvironment): what they return   *)
(* is chosen from small sets.                                              *)
(*                                                                         *)
(* Python values that may be None are modelled as sequences of length at   *)
(* most one: None is << >> and a value v is <<v>>.  Python's False and     *)
(* True are the integers 0 and 1 (bool is a subclass of int, False == 0).  *)
(***************************************************************************)
EXTENDS Integers, Sequences, FiniteSets

\* ------------------------------------------------------------------ bounds
\* Environment.step calls the model follows after one rl_init.
MaxRunSteps == 2
\* rl_start calls (bare or inside rl_episode) the model follows after one rl_init.
MaxStarts == 2

\* ------------------------------------------------------------------ values
None == << >>
Some(v) == <<v>>
Val(o) == o[1]

PyFalse == Some(0)
PyTrue == Some(1)

\* The truth value Python gives a value in `while not terminal`: None, False
\* and 0 are false, every other value of the model is true.
Truthy(v) == v # None /\ Val(v) # 0

\* What the collaborators may return.
Rewards == {-1, 2}
\* The mediator forwards observations without inspecting them: env_start
\* answers with a first observation, env_step with a next state.
Observations == {"s0"}
NextStates == {"s1"}
Actions == {None, Some(1)}
Messages == {None, Some("m")}
Responses == {None, Some("r")}

\* The arguments the experiment passes.
RunInitArgs == {<<0, 0, 0>>, <<5, 10, 2>>}
MaxStepsArgs == {0, 2}

VARIABLES
    total_reward, num_steps, num_episodes, episode_reward, num_ep_steps,
    action,
    pc, max_steps_this_episode, terminal,
    envStepNo, envTerminalAt, envReward,
    lastOp, args, result, calls,
    run

mediator == <<total_reward, num_steps, num_episodes, episode_reward, num_ep_steps, action>>
frame == <<pc, max_steps_this_episode, terminal>>
env == <<envStepNo, envTerminalAt, envReward>>
vars == <<mediator, frame, env, lastOp, args, result, calls, run>>

\* ------------------------------------------------------- calls and results
\* A call into a collaborator: the operation, its arguments and what it returned.
Call(fn, arguments, ret) == [fn |-> fn, args |-> arguments, ret |-> ret]
Ret(v) == [raised |-> FALSE, value |-> v]
Raised == [raised |-> TRUE, value |-> None]
\* What the call log keeps, in place of a return value, of a collaborator's
\* call that raised: a pair, unlike every value a collaborator returns.
Failure == <<"raised", "exception">>

\* The run's history since the last rl_init: the arguments of that rl_init
\* and what has been called since.  Before the first rl_init there is no run
\* and only the Environment.step calls are counted.
RunStart(tr, ns, ne) ==
    [inited |-> TRUE, total_reward |-> tr, num_steps |-> ns, num_episodes |-> ne,
     starts |-> 0, rlSteps |-> 0, envSteps |-> 0, envStepsNonTerminal |-> 0,
     rewards |-> 0, ended |-> 0, episodes |-> 0]
RunNew == [RunStart(0, 0, 0) EXCEPT !.inited = FALSE]

\* The run's history after an rl_step whose Environment.step returned (r, _, t).
RunAfterRlStep(r, t, ends) ==
    IF run.inited
      THEN [run EXCEPT !.rlSteps = @ + 1, !.envSteps = @ + 1, !.rewards = @ + r,
                       !.ended = @ + (IF ends /\ t THEN 1 ELSE 0)]
      ELSE [run EXCEPT !.envSteps = @ + 1]

\* The run's history after an rl_env_step whose Environment.step returned (r, _, t).
RunAfterRlEnvStep(r, t) ==
    IF run.inited
      THEN [run EXCEPT !.envSteps = @ + 1, !.rewards = @ + r,
                       !.envStepsNonTerminal = @ + (IF t THEN 0 ELSE 1),
                       !.ended = @ + (IF t THEN 1 ELSE 0)]
      ELSE [run EXCEPT !.envSteps = @ + 1]

\* The run's history after an rl_start.
RunAfterRlStart == IF run.inited THEN [run EXCEPT !.starts = @ + 1] ELSE run

\* rl_episode is not running: its locals hold nothing.
FrameIdle == pc' = "idle" /\ max_steps_this_episode' = 0 /\ terminal' = PyFalse

\* __init__: every statistic and the action are None.
Init ==
    /\ total_reward = None
    /\ num_steps = None
    /\ num_episodes = None
    /\ episode_reward = None
    /\ num_ep_steps = None
    /\ action = None
    /\ pc = "idle"
    /\ max_steps_this_episode = 0
    /\ terminal = PyFalse
    /\ envStepNo = 0
    /\ envTerminalAt = 0
    /\ envReward = 0
    /\ lastOp = "__init__"
    /\ args = << >>
    /\ result = Ret(None)
    /\ calls = << >>
    /\ run = RunNew

\* ------------------------------------------------------------- environment
\* What the model keeps of the environment (BaseEnvironment is abstract): the
\* number of env_step calls since its last env_init or env_start, the step
\* on which it first reported terminal since then (0: on none so far), and
\* the sum of the rewards it returned up to that step.

\* env_init and env_start: a new episode of the environment.
EnvReset ==
    /\ envStepNo' = 0
    /\ envTerminalAt' = 0
    /\ envReward' = 0

\* env_step returning reward r and terminal flag t.
EnvStep(r, t) ==
    /\ run.envSteps < MaxRunSteps
    /\ envStepNo' = envStepNo + 1
    /\ envTerminalAt' = IF envTerminalAt = 0 /\ t THEN envStepNo + 1 ELSE envTerminalAt
    /\ envReward' = IF envTerminalAt = 0 THEN envReward + r ELSE envReward

\* --------------------------------------------------------------- rl_init
\* A variant of RlInitState: the step and episode counts are swapped.
RlInitStateSwapped(tr, ns, ne) ==
    /\ total_reward' = Some(tr)
    /\ num_steps' = Some(ne)
    /\ num_episodes' = Some(ns)
    /\ episode_reward' = Some(0)
    /\ num_ep_steps' = Some(0)
    /\ action' = None

\* rl_init, lines 76-82: the run's statistics take the arguments, the
\* episode's statistics are 0 and the action is None.
RlInitState(tr, ns, ne) ==
    /\ total_reward' = Some(tr)
    /\ num_steps' = Some(ns)
    /\ num_episodes' = Some(ne)
    /\ episode_reward' = Some(0)
    /\ num_ep_steps' = Some(0)
    /\ action' = None

\* rl_init, lines 84-85: the collaborators it calls, in order.
RlInitCalls == << Call("agent_init", << >>, None), Call("env_init", << >>, None) >>

RlInit ==
    /\ pc = "idle"
    /\ \E a \in RunInitArgs :
          /\ RlInitState(a[1], a[2], a[3])
          /\ run' = RunStart(a[1], a[2], a[3])
          /\ args' = a
    /\ calls' = RlInitCalls
    /\ EnvReset
    /\ FrameIdle
    /\ lastOp' = "rl_init"
    /\ result' = Ret(None)

\* -------------------------------------------------------------- rl_start
\* A variant of RlStartNumSteps: the run's step count restarts with the episode.
RlStartNumStepsReset == IF num_steps = None THEN None ELSE Some(0)

\* rl_start leaves _num_steps alone (line 101 is commented out).
RlStartNumSteps == num_steps

\* A variant of RlStartBody: the action agent_start returns is returned to
\* the caller but not stored.
RlStartBodyActionNotStored(s, a) ==
    /\ episode_reward' = Some(0)
    /\ num_ep_steps' = Some(0)
    /\ num_steps' = RlStartNumSteps
    /\ UNCHANGED <<total_reward, action>>
    /\ IF num_episodes = None
         THEN /\ UNCHANGED <<num_episodes, env>>
              /\ calls' = << >>
         ELSE /\ num_episodes' = Some(Val(num_episodes) + 1)
              /\ EnvReset
              /\ calls' = << Call("env_start", << >>, s), Call("agent_start", <<s>>, a) >>

\* The body of rl_start with the environment's observation s and the agent's
\* first action a.  Before rl_init _num_episodes is None and line 103 raises
\* TypeError, after lines 99-100 have run and before any collaborator is called.
RlStartBody(s, a) ==
    /\ episode_reward' = Some(0)
    /\ num_ep_steps' = Some(0)
    /\ num_steps' = RlStartNumSteps
    /\ UNCHANGED total_reward
    /\ IF num_episodes = None
         THEN /\ UNCHANGED <<num_episodes, action, env>>
              /\ calls' = << >>
         ELSE /\ num_episodes' = Some(Val(num_episodes) + 1)
              /\ EnvReset
              /\ action' = a
              /\ calls' = << Call("env_start", << >>, s), Call("agent_start", <<s>>, a) >>

RlStart ==
    /\ pc = "idle"
    /\ run.starts < MaxStarts
    /\ \E s \in Observations, a \in Actions :
          /\ RlStartBody(s, a)
          /\ result' = IF num_episodes = None THEN Raised ELSE Ret(<<s, a>>)
    /\ run' = RunAfterRlStart
    /\ FrameIdle
    /\ lastOp' = "rl_start"
    /\ args' = << >>

\* --------------------------------------------------------------- rl_step
\* A variant of RlStepCounters: the step is counted in the episode only.
RlStepCountersEpisodeOnly(r) ==
    /\ num_ep_steps' = Some(Val(num_ep_steps) + 1)
    /\ UNCHANGED num_steps
    /\ total_reward' = Some(Val(total_reward) + r)
    /\ episode_reward' = Some(Val(episode_reward) + r)

\* rl_step, lines 126-130, with the reward r of the transition.
RlStepCounters(r) ==
    /\ num_ep_steps' = Some(Val(num_ep_steps) + 1)
    /\ num_steps' = Some(Val(num_steps) + 1)
    /\ total_reward' = Some(Val(total_reward) + r)
    /\ episode_reward' = Some(Val(episode_reward) + r)

\* A variant of RlStepAgentCall: the terminal transition goes to agent_step too.
RlStepAgentCallAlwaysStep(r, s, t, a) == Call("agent_step", <<r, s, t>>, a)

\* rl_step, lines 132-136: the agent operation the transition is handed to.
RlStepAgentCall(r, s, t, a) ==
    Call(IF t THEN "agent_end" ELSE "agent_step", <<r, s, t>>, a)

\* The body of rl_step: the environment answers (r, s, t) to the stored
\* action and the agent answers a.  Before rl_init the counters are None and
\* line 126 or line 127 raises TypeError, after Environment.step has run.
RlStepBody(r, s, t, a) ==
    /\ EnvStep(r, t)
    /\ UNCHANGED num_episodes
    /\ IF num_ep_steps = None
         THEN /\ UNCHANGED <<total_reward, num_steps, episode_reward, num_ep_steps, action>>
              /\ calls' = << Call("env_step", <<action>>, <<r, s, t>>) >>
         ELSE IF num_steps = None
         THEN /\ num_ep_steps' = Some(Val(num_ep_steps) + 1)
              /\ UNCHANGED <<total_reward, num_steps, episode_reward, action>>
              /\ calls' = << Call("env_step", <<action>>, <<r, s, t>>) >>
         ELSE /\ RlStepCounters(r)
              /\ action' = a
              /\ calls' = << Call("env_step", <<action>>, <<r, s, t>>), RlStepAgentCall(r, s, t, a) >>

\* rl_step when Environment.step raises at line 124: the exception leaves
\* rl_step before any statement after the call has run.
RlStepEnvFailsBody ==
    /\ calls' = << Call("env_step", <<action>>, Failure) >>
    /\ result' = Raised
    /\ UNCHANGED <<mediator, env, run>>

\* A variant of RlStepAgentFailsBody: the agent operation is called before
\* the counters are updated, so its exception leaves them as they were.
RlStepAgentFailsBodyBeforeCounters(r, s, t) ==
    /\ run.inited
    /\ EnvStep(r, t)
    /\ UNCHANGED mediator
    /\ calls' = << Call("env_step", <<action>>, <<r, s, t>>),
                   RlStepAgentCall(r, s, t, Failure) >>
    /\ result' = Raised

\* rl_step when the environment answers (r, s, t) and the agent operation of
\* line 133 or 136 raises: lines 126-130 have run and the assignment to
\* _action has not.  (Before rl_init line 126 or 127 raises first.)
RlStepAgentFailsBody(r, s, t) ==
    /\ run.inited
    /\ EnvStep(r, t)
    /\ RlStepCounters(r)
    /\ UNCHANGED <<num_episodes, action>>
    /\ calls' = << Call("env_step", <<action>>, <<r, s, t>>),
                   RlStepAgentCall(r, s, t, Failure) >>
    /\ result' = Raised

RlStep ==
    /\ pc = "idle"
    /\ \E r \in Rewards, s \in NextStates, t \in BOOLEAN, a \in Actions :
          /\ RlStepBody(r, s, t, a)
          /\ result' = IF num_steps = None THEN Raised ELSE Ret(<<r, s, t, a>>)
          /\ run' = RunAfterRlStep(r, t, TRUE)
    /\ FrameIdle
    /\ lastOp' = "rl_step"
    /\ args' = << >>

RlStepEnvFails ==
    /\ pc = "idle"
    /\ RlStepEnvFailsBody
    /\ FrameIdle
    /\ lastOp' = "rl_step"
    /\ args' = << >>

RlStepAgentFails ==
    /\ pc = "idle"
    /\ \E r \in Rewards, s \in NextStates, t \in BOOLEAN :
          /\ RlStepAgentFailsBody(r, s, t)
          /\ run' = RunAfterRlStep(r, t, TRUE)
    /\ FrameIdle
    /\ lastOp' = "rl_step"
    /\ args' = << >>

\* ------------------------------------------------------------ rl_episode
\* The condition of the while loop, line 156.
LoopCondition ==
    /\ ~Truthy(terminal)
    /\ \/ max_steps_this_episode <= 0
       \/ Val(num_ep_steps) < max_steps_this_episode

\* rl_episode, lines 152-154: terminal = False and the call of rl_start.
RlEpisodeCall ==
    /\ pc = "idle"
    /\ run.starts < MaxStarts
    /\ \E s \in Observations, a \in Actions : RlStartBody(s, a)
    /\ \E n \in MaxStepsArgs :
          /\ args' = <<n>>
          /\ IF num_episodes = None
               THEN FrameIdle /\ result' = Raised
               ELSE /\ pc' = "episode_loop"
                    /\ max_steps_this_episode' = n
                    /\ terminal' = PyFalse
                    /\ result' = Ret(None)
    /\ run' = RunAfterRlStart
    /\ lastOp' = "rl_episode"

\* One iteration of the loop, line 157: the fourth element of what rl_step
\* returns, the stored action, is assigned to terminal.
RlEpisodeIteration ==
    /\ pc = "episode_loop"
    /\ LoopCondition
    /\ \E r \in Rewards, s \in NextStates, t \in BOOLEAN, a \in Actions :
          /\ RlStepBody(r, s, t, a)
          /\ terminal' = a
          /\ run' = RunAfterRlStep(r, t, FALSE)
    /\ UNCHANGED <<pc, max_steps_this_episode, lastOp, args, result>>

\* An iteration whose rl_step raises: the exception leaves rl_episode too,
\* line 159 is not reached.
RlEpisodeIterationEnvFails ==
    /\ pc = "episode_loop"
    /\ LoopCondition
    /\ RlStepEnvFailsBody
    /\ FrameIdle
    /\ UNCHANGED <<lastOp, args>>

RlEpisodeIterationAgentFails ==
    /\ pc = "episode_loop"
    /\ LoopCondition
    /\ \E r \in Rewards, s \in NextStates, t \in BOOLEAN :
          /\ RlStepAgentFailsBody(r, s, t)
          /\ run' = RunAfterRlStep(r, t, FALSE)
    /\ FrameIdle
    /\ UNCHANGED <<lastOp, args>>

\* A variant of RlEpisodeReturn: the episode rl_start has counted is not
\* counted again.
RlEpisodeReturnCountedOnce ==
    /\ pc = "episode_loop"
    /\ ~LoopCondition
    /\ result' = Ret(terminal)
    /\ pc' = "idle"
    /\ run' = [run EXCEPT !.ended = @ + 1, !.episodes = @ + 1]
    /\ UNCHANGED mediator
    /\ UNCHANGED <<max_steps_this_episode, terminal, env, lastOp, args, calls>>

\* The loop is left, lines 159-161.
RlEpisodeReturn ==
    /\ pc = "episode_loop"
    /\ ~LoopCondition
    /\ num_episodes' = Some(Val(num_episodes) + 1)
    /\ result' = Ret(terminal)
    /\ pc' = "idle"
    /\ run' = [run EXCEPT !.ended = @ + 1, !.episodes = @ + 1]
    /\ UNCHANGED <<total_reward, num_steps, episode_reward, num_ep_steps, action>>
    /\ UNCHANGED <<max_steps_this_episode, terminal, env, lastOp, args, calls>>

\* ---------------------------------------------------------- rl_env_start
\* A variant of RlEnvStartEpSteps: the episode's step count is not reset.
RlEnvStartEpStepsKept == num_ep_steps

\* rl_env_start, line 172: what it leaves in _num_ep_steps.
RlEnvStartEpSteps == Some(0)

\* A variant of RlEnvStart: the episode's reward is reset too, as rl_start
\* resets it.
RlEnvStartResetsEpisodeReward ==
    /\ pc = "idle"
    /\ num_ep_steps' = RlEnvStartEpSteps
    /\ episode_reward' = Some(0)
    /\ EnvReset
    /\ \E s \in Observations :
          /\ result' = Ret(s)
          /\ calls' = << Call("env_start", << >>, s) >>
    /\ args' = << >>
    /\ UNCHANGED <<total_reward, num_steps, num_episodes, action, run>>
    /\ FrameIdle
    /\ lastOp' = "rl_env_start"

RlEnvStart ==
    /\ pc = "idle"
    /\ num_ep_steps' = RlEnvStartEpSteps
    /\ EnvReset
    /\ \E s \in Observations :
          /\ result' = Ret(s)
          /\ calls' = << Call("env_start", << >>, s) >>
    /\ args' = << >>
    /\ UNCHANGED <<total_reward, num_steps, num_episodes, episode_reward, action, run>>
    /\ FrameIdle
    /\ lastOp' = "rl_env_start"

\* ----------------------------------------------------------- rl_env_step
\* A variant of RlEnvStepCounters: the reward goes to the episode's reward
\* instead of the run's.
RlEnvStepCountersEpisodeReward(r, t) ==
    /\ episode_reward' = Some(Val(episode_reward) + r)
    /\ IF t
         THEN /\ num_episodes' = Some(Val(num_episodes) + 1)
              /\ UNCHANGED <<num_ep_steps, num_steps>>
         ELSE /\ num_ep_steps' = Some(Val(num_ep_steps) + 1)
              /\ num_steps' = Some(Val(num_steps) + 1)
              /\ UNCHANGED num_episodes
    /\ UNCHANGED <<total_reward, action>>

\* A variant of RlEnvStepCounters: a terminal step is counted as a step too,
\* as rl_step counts it.
RlEnvStepCountersTerminalCounted(r, t) ==
    /\ total_reward' = Some(Val(total_reward) + r)
    /\ num_ep_steps' = Some(Val(num_ep_steps) + 1)
    /\ num_steps' = Some(Val(num_steps) + 1)
    /\ num_episodes' = IF t THEN Some(Val(num_episodes) + 1) ELSE num_episodes
    /\ UNCHANGED <<episode_reward, action>>

\* rl_env_step, lines 190-196, with the reward r and the terminal flag t of
\* the transition.
RlEnvStepCounters(r, t) ==
    /\ total_reward' = Some(Val(total_reward) + r)
    /\ IF t
         THEN /\ num_episodes' = Some(Val(num_episodes) + 1)
              /\ UNCHANGED <<num_ep_steps, num_steps>>
         ELSE /\ num_ep_steps' = Some(Val(num_ep_steps) + 1)
              /\ num_steps' = Some(Val(num_steps) + 1)
              /\ UNCHANGED num_episodes
    /\ UNCHANGED <<episode_reward, action>>

\* rl_env_step(a).  Before rl_init _total_reward is None and line 190 raises
\* TypeError, after Environment.step has run.
RlEnvStep ==
    /\ pc = "idle"
    /\ \E a \in Actions, r \in Rewards, s \in NextStates, t \in BOOLEAN :
          /\ EnvStep(r, t)
          /\ calls' = << Call("env_step", <<a>>, <<r, s, t>>) >>
          /\ args' = <<a>>
          /\ IF total_reward = None
               THEN UNCHANGED mediator /\ result' = Raised
               ELSE RlEnvStepCounters(r, t) /\ result' = Ret(<<r, s, t>>)
          /\ run' = RunAfterRlEnvStep(r, t)
    /\ FrameIdle
    /\ lastOp' = "rl_env_step"

\* rl_env_step(a) when Environment.step raises at line 188.
RlEnvStepEnvFails ==
    /\ pc = "idle"
    /\ \E a \in Actions :
          /\ calls' = << Call("env_step", <<a>>, Failure) >>
          /\ args' = <<a>>
    /\ result' = Raised
    /\ UNCHANGED <<mediator, env, run>>
    /\ FrameIdle
    /\ lastOp' = "rl_env_step"

\* ------------------------------------------------------------- messages
\* Lines 210-213 and 231-234: the message handed to the collaborator.
MessageToSend(message) == IF message = None THEN Some("") ELSE message

\* A variant of AgentResponse: the response is returned as it is.
AgentResponseRaw(the_agent_response) == the_agent_response

\* Lines 216-219: what rl_agent_message returns for the agent's response.
AgentResponse(the_agent_response) ==
    IF the_agent_response = None THEN Some("") ELSE the_agent_response

\* Lines 237-240: what rl_env_message returns for the environment's response.
EnvResponse(the_env_response) ==
    IF the_env_response = None THEN Some("") ELSE the_env_response

\* A variant of RlAgentMessage: the agent's response is kept as the stored
\* action.
RlAgentMessageStoresResponse ==
    /\ pc = "idle"
    /\ \E message \in Messages, response \in Responses :
          /\ args' = <<message>>
          /\ calls' = << Call("agent_message", <<MessageToSend(message)>>, response) >>
          /\ result' = Ret(AgentResponse(response))
          /\ action' = response
    /\ UNCHANGED <<total_reward, num_steps, num_episodes, episode_reward, num_ep_steps>>
    /\ UNCHANGED <<env, run>>
    /\ FrameIdle
    /\ lastOp' = "rl_agent_message"

RlAgentMessage ==
    /\ pc = "idle"
    /\ \E message \in Messages, response \in Responses :
          /\ args' = <<message>>
          /\ calls' = << Call("agent_message", <<MessageToSend(message)>>, response) >>
          /\ result' = Ret(AgentResponse(response))
    /\ UNCHANGED <<mediator, env, run>>
    /\ FrameIdle
    /\ lastOp' = "rl_agent_message"

RlEnvMessage ==
    /\ pc = "idle"
    /\ \E message \in Messages, response \in Responses :
          /\ args' = <<message>>
          /\ calls' = << Call("env_message", <<MessageToSend(message)>>, response) >>
          /\ result' = Ret(EnvResponse(response))
    /\ UNCHANGED <<mediator, env, run>>
    /\ FrameIdle
    /\ lastOp' = "rl_env_message"

\* ------------------------------------------------------------- accessors
\* Lines 33-66: the five accessors return the attributes.
Accessor(name) ==
    CASE name = "total_reward" -> total_reward
      [] name = "episode_reward" -> episode_reward
      [] name = "num_steps" -> num_steps
      [] name = "num_episodes" -> num_episodes
      [] name = "num_ep_steps" -> num_ep_steps

AccessorNames == {"total_reward", "episode_reward", "num_steps", "num_episodes", "num_ep_steps"}

ReadAccessor ==
    /\ pc = "idle"
    /\ \E name \in AccessorNames :
          /\ lastOp' = name
          /\ result' = Ret(Accessor(name))
    /\ args' = << >>
    /\ calls' = << >>
    /\ UNCHANGED <<mediator, env, run>>
    /\ FrameIdle

\* ------------------------------------------------------------------ Spec
Next ==
    \/ RlInit
    \/ RlStart
    \/ RlStep
    \/ RlStepEnvFails
    \/ RlStepAgentFails
    \/ RlEpisodeCall
    \/ RlEpisodeIteration
    \/ RlEpisodeIterationEnvFails
    \/ RlEpisodeIterationAgentFails
    \/ RlEpisodeReturn
    \/ RlEnvStart
    \/ RlEnvStep
    \/ RlEnvStepEnvFails
    \/ RlAgentMessage
    \/ RlEnvMessage
    \/ ReadAccessor

Spec == Init /\ [][Next]_vars

\* ---------------------------------------------------------------- claims
\* An rl_episode call that got past rl_start: it is in its loop or has
\* returned, and no other operation has been called since.
InRlEpisode == lastOp = "rl_episode" /\ ~result.raised
RlEpisodeReturned == InRlEpisode /\ pc = "idle"

\* C1: rl_episode with max_steps = N > 0, against an environment that first
\* reports terminal on its k-th step, k <= N, makes exactly k step calls (no
\* Environment.step call follows the terminal one) and returns true, whatever
\* actions the agent returns.
C1_StopsAtTerminalAndReturnsTrue ==
    (/\ InRlEpisode
     /\ max_steps_this_episode > 0
     /\ envTerminalAt > 0
     /\ envTerminalAt <= max_steps_this_episode)
    => /\ envStepNo = envTerminalAt
       /\ RlEpisodeReturned => result.value = PyTrue

\* C2: rl_episode with max_steps = N > 0, against an environment that reports
\* terminal on none of its steps, makes exactly N step calls and then returns
\* false, whatever actions the agent returns.
C2_StopsAtCapAndReturnsFalse ==
    (/\ RlEpisodeReturned
     /\ max_steps_this_episode > 0
     /\ envTerminalAt = 0)
    => /\ envStepNo = max_steps_this_episode
       /\ result.value = PyFalse

\* C3: rl_episode with no step cap (max_steps <= 0), against an environment
\* that reports terminal on its k-th step, makes no step call after the k-th
\* and returns true with num_ep_steps = k and episode_reward = the sum of the
\* k rewards.
C3_UncappedEpisodeEndsAtTerminal ==
    (/\ InRlEpisode
     /\ max_steps_this_episode <= 0
     /\ envTerminalAt > 0)
    => /\ envStepNo = envTerminalAt
       /\ RlEpisodeReturned =>
             /\ num_ep_steps = Some(envTerminalAt)
             /\ episode_reward = Some(envReward)
             /\ result.value = PyTrue

\* C4: after rl_init, num_episodes is its rl_init value plus the number of
\* episodes that have ended so far: it is incremented once per completed
\* episode, at the episode's end and not at its start.
C4_NumEpisodesCountsEndedEpisodes ==
    run.inited => num_episodes = Some(run.num_episodes + run.ended)

\* C5 as stated: after rl_init, num_steps is its rl_init value plus the number
\* of rl_step calls made since.
C5_NumStepsCountsRlStepCalls ==
    run.inited => num_steps = Some(run.num_steps + run.rlSteps)

\* C5 as amended: after rl_init, num_steps is its rl_init value plus the number
\* of rl_step calls and of non-terminal rl_env_step calls made since; every
\* rl_step, terminal or not, adds one, and rl_start never changes it.
C5_NumStepsCountsStepsTaken ==
    run.inited =>
        num_steps = Some(run.num_steps + run.rlSteps + run.envStepsNonTerminal)

\* An rl_start after an rl_step and a non-terminal rl_env_step of a run that
\* began with num_steps = 10.
C5_Witness ==
    /\ run.inited
    /\ lastOp = "rl_start"
    /\ run.rlSteps >= 1
    /\ run.envStepsNonTerminal >= 1
    /\ num_steps = Some(12)

\* C6: after rl_init, in every state of any interleaving of rl_start, rl_step,
\* rl_episode, rl_env_start and rl_env_step, total_reward is its rl_init value
\* (0 in the claim) plus the sum of the rewards returned by the rl_step and
\* rl_env_step calls made since.
C6_TotalRewardIsSumOfRewards ==
    run.inited => total_reward = Some(run.total_reward + run.rewards)

\* A run that began with total_reward = 0 and has taken an rl_step and an
\* rl_env_step whose rewards do not cancel.
C6_Witness ==
    /\ run.inited
    /\ run.total_reward = 0
    /\ run.rlSteps >= 1
    /\ run.envSteps > run.rlSteps
    /\ total_reward = Some(run.rewards)
    /\ run.rewards # 0

\* C7 as stated: between two rl_init calls, rl_start (alone or in rl_episode)
\* resets episode_reward and num_ep_steps to 0 and no other operation does:
\* under every other operation num_ep_steps does not decrease, and
\* episode_reward does not decrease when the reward is not negative.  Stated
\* for the operations that follow the run's first rl_start.
C7_EpisodeCountersResetOnlyAtStart ==
    [][ (run.inited /\ run.starts >= 1 /\ lastOp' # "rl_init") =>
          IF pc = "idle" /\ lastOp' \in {"rl_start", "rl_episode"}
            THEN episode_reward' = Some(0) /\ num_ep_steps' = Some(0)
            ELSE /\ Val(num_ep_steps') >= Val(num_ep_steps)
                 /\ run'.rewards >= run.rewards
                       => Val(episode_reward') >= Val(episode_reward) ]_vars

\* C7 as amended: rl_env_start too resets num_ep_steps to 0 (and leaves
\* episode_reward alone); under rl_step, rl_env_step, the messages and the
\* accessors num_ep_steps does not decrease; under every operation but
\* rl_start episode_reward does not decrease when the reward is not negative.
C7_EpisodeCountersResetAtStarts ==
    [][ (run.inited /\ lastOp' # "rl_init") =>
          IF pc = "idle" /\ lastOp' \in {"rl_start", "rl_episode"}
            THEN episode_reward' = Some(0) /\ num_ep_steps' = Some(0)
            ELSE /\ IF lastOp' = "rl_env_start"
                      THEN num_ep_steps' = Some(0)
                      ELSE Val(num_ep_steps') >= Val(num_ep_steps)
                 /\ run'.rewards >= run.rewards
                       => Val(episode_reward') >= Val(episode_reward) ]_vars

\* An rl_env_start inside an episode that has taken a step: num_ep_steps is
\* back to 0 and episode_reward is not.
C7_Witness ==
    /\ run.inited
    /\ lastOp = "rl_env_start"
    /\ run.starts >= 1
    /\ run.rlSteps >= 1
    /\ num_ep_steps = Some(0)
    /\ episode_reward # Some(0)

\* C8: after rl_init(a, b, c), from any state, the accessors return a, b and
\* c, episode_reward and num_ep_steps are 0, the stored action is None, and
\* rl_init has called agent_init and then env_init, once each.
C8_RlInitSetsCountersAndCallsInits ==
    lastOp = "rl_init" =>
        /\ Accessor("total_reward") = Some(args[1])
        /\ Accessor("num_steps") = Some(args[2])
        /\ Accessor("num_episodes") = Some(args[3])
        /\ Accessor("episode_reward") = Some(0)
        /\ Accessor("num_ep_steps") = Some(0)
        /\ action = None
        /\ Len(calls) = 2
        /\ calls[1].fn = "agent_init"
        /\ calls[2].fn = "env_init"

\* rl_init(5, 10, 2) has just returned.
C8_Witness ==
    /\ lastOp = "rl_init"
    /\ args = <<5, 10, 2>>
    /\ total_reward = Some(5)
    /\ num_steps = Some(10)
    /\ num_episodes = Some(2)

\* C9: after rl_init, every rl_step (called alone or by rl_episode) whose
\* Environment.step returns calls, after it, exactly one agent operation, with
\* the (reward, next state, terminal) the environment returned: agent_end
\* when terminal is true, agent_step when it is false.
C9_StepHandsTransitionToOneAgentOperation ==
    (/\ run.inited
     /\ lastOp \in {"rl_step", "rl_episode"}
     /\ calls # << >>
     /\ calls[1].fn = "env_step"
     /\ calls[1].ret # Failure)
    => /\ Len(calls) = 2
       /\ calls[2].fn = (IF calls[1].ret[3] THEN "agent_end" ELSE "agent_step")
       /\ calls[2].args = calls[1].ret

\* An rl_step inside rl_episode has handed a terminal transition to agent_end.
C9_Witness ==
    /\ run.inited
    /\ lastOp = "rl_episode"
    /\ Len(calls) = 2
    /\ calls[1].fn = "env_step"
    /\ calls[1].ret = <<2, "s1", TRUE>>
    /\ calls[2].fn = "agent_end"

\* C10: rl_agent_message and rl_env_message call their collaborator's message
\* operation once, with "" for a None message and the message otherwise, and
\* return "" for a None response and the response otherwise.
C10_MessagesNormaliseNone ==
    LET Forwarded(fn) ==
            /\ Len(calls) = 1
            /\ calls[1].fn = fn
            /\ calls[1].args = << IF args[1] = None THEN Some("") ELSE args[1] >>
            /\ ~result.raised
            /\ result.value = IF calls[1].ret = None THEN Some("") ELSE calls[1].ret
    IN  /\ lastOp = "rl_agent_message" => Forwarded("agent_message")
        /\ lastOp = "rl_env_message" => Forwarded("env_message")

\* rl_agent_message(None) with an agent that answers None has returned "".
C10_Witness ==
    /\ lastOp = "rl_agent_message"
    /\ args = <<None>>
    /\ calls[1].args = <<Some("")>>
    /\ calls[1].ret = None
    /\ result.value = Some("")

\* C11: after rl_init, an rl_env_step(a) whose Environment.step returns
\* (r, s, t) calls Environment.step(a) and nothing else, adds r to
\* total_reward, then adds one to num_episodes alone when t is true and one
\* to each of num_ep_steps and num_steps when t is false, leaves
\* episode_reward and the stored action as they were, and returns (r, s, t).
C11_RlEnvStepEffect ==
    [][ (run.inited /\ lastOp' = "rl_env_step" /\ ~result'.raised) =>
          /\ Len(calls') = 1
          /\ calls'[1].fn = "env_step"
          /\ calls'[1].args = args'
          /\ result'.value = calls'[1].ret
          /\ total_reward' = Some(Val(total_reward) + calls'[1].ret[1])
          /\ IF calls'[1].ret[3]
               THEN /\ num_episodes' = Some(Val(num_episodes) + 1)
                    /\ num_ep_steps' = num_ep_steps
                    /\ num_steps' = num_steps
               ELSE /\ num_episodes' = num_episodes
                    /\ num_ep_steps' = Some(Val(num_ep_steps) + 1)
                    /\ num_steps' = Some(Val(num_steps) + 1)
          /\ episode_reward' = episode_reward
          /\ action' = action ]_vars

\* A terminal rl_env_step has returned, in an episode whose agent chose an
\* action other than the one handed to rl_env_step.
C11_Witness ==
    /\ run.inited
    /\ lastOp = "rl_env_step"
    /\ ~result.raised
    /\ result.value[3]
    /\ run.starts >= 1
    /\ args = <<None>>
    /\ action = Some(1)

\* C12: every rl_env_start sets num_ep_steps to 0, calls Environment.start
\* once and no other collaborator operation, returns the observation that
\* call returned, and leaves total_reward, num_steps, num_episodes,
\* episode_reward and the stored action as they were.
C12_RlEnvStartEffect ==
    [][ lastOp' = "rl_env_start" =>
          /\ num_ep_steps' = Some(0)
          /\ Len(calls') = 1
          /\ calls'[1].fn = "env_start"
          /\ calls'[1].args = << >>
          /\ result' = Ret(calls'[1].ret)
          /\ total_reward' = total_reward
          /\ num_steps' = num_steps
          /\ num_episodes' = num_episodes
          /\ episode_reward' = episode_reward
          /\ action' = action ]_vars

\* rl_env_start has returned in the middle of an episode that had taken a
\* step, collected a reward and stored an action.
C12_Witness ==
    /\ lastOp = "rl_env_start"
    /\ run.inited
    /\ run.rlSteps >= 1
    /\ num_ep_steps = Some(0)
    /\ episode_reward # Some(0)
    /\ action = Some(1)
    /\ Val(num_steps) > run.num_steps

\* C13: a read of any of the five accessors, an rl_agent_message and an
\* rl_env_message leave the five counters and the stored action as they
\* were, whatever the state, the message and the response.
C13_ReadsAndMessagesChangeNothing ==
    [][ lastOp' \in AccessorNames \cup {"rl_agent_message", "rl_env_message"}
          => mediator' = mediator ]_vars

\* In the middle of an episode with non-zero counters and a stored action, a
\* message has been answered with a response.
C13_Witness ==
    /\ lastOp = "rl_env_message"
    /\ args = <<Some("m")>>
    /\ result = Ret(Some("r"))
    /\ run.inited
    /\ num_ep_steps = Some(1)
    /\ episode_reward = Some(2)
    /\ action = Some(1)

\* C14: after rl_init, every Environment.step call made by rl_step, called
\* alone or by rl_episode, is handed an action, never None.
C14_StepNeverPassesNoAction ==
    (/\ run.inited
     /\ lastOp \in {"rl_step", "rl_episode"}
     /\ calls # << >>
     /\ calls[1].fn = "env_step")
    => /\ run.starts >= 1
       /\ calls[1].args # <<None>>

\* A transition that is a call of rl_start, alone or at the head of
\* rl_episode, and one that is a call of rl_step, alone or in the loop of
\* rl_episode.
RlStartTaken == pc = "idle" /\ lastOp' \in {"rl_start", "rl_episode"}
RlStepTaken ==
    \/ pc = "idle" /\ lastOp' = "rl_step"
    \/ pc = "episode_loop" /\ (pc' = "episode_loop" \/ result'.raised)

\* C15: between two rl_init calls, rl_start calls Environment.start and then
\* Agent.start with the observation Environment.start returned, stores the
\* action Agent.start returned and returns (observation, action); rl_step
\* hands Environment.step the stored action and, when its agent operation
\* returns, stores what it returned and returns it as fourth element (which
\* rl_episode assigns to its loop variable); nothing else changes the stored
\* action, so every step after an rl_start passes the action that the most
\* recent Agent.start, Agent.step or Agent.end returned.
C15_ActionsFlowFromAgentToEnvironment ==
    [][ run.inited =>
          /\ RlStartTaken =>
                /\ Len(calls') = 2
                /\ calls'[1].fn = "env_start"
                /\ calls'[2].fn = "agent_start"
                /\ calls'[2].args = <<calls'[1].ret>>
                /\ action' = calls'[2].ret
                /\ lastOp' = "rl_start" => result' = Ret(<<calls'[1].ret, action'>>)
          /\ RlStepTaken =>
                /\ calls'[1].fn = "env_step"
                /\ calls'[1].args = <<action>>
                /\ IF calls'[1].ret = Failure
                     THEN action' = action
                     ELSE /\ calls'[2].fn \in {"agent_step", "agent_end"}
                          /\ IF calls'[2].ret = Failure
                               THEN action' = action
                               ELSE /\ action' = calls'[2].ret
                                    /\ lastOp' = "rl_step" => result'.value[4] = action'
                                    /\ lastOp' = "rl_episode" => terminal' = action'
          /\ (~RlStartTaken /\ ~RlStepTaken /\ lastOp' # "rl_init") => action' = action ]_vars

\* The second rl_step of an episode has returned: it handed Environment.step
\* the action Agent.step had returned, after an agent that first answered
\* without an action.
C15_Witness ==
    /\ run.inited
    /\ lastOp = "rl_step"
    /\ ~result.raised
    /\ run.rlSteps = 2
    /\ run.starts = 1
    /\ calls[1].args = <<Some(1)>>
    /\ result.value[4] = None
    /\ action = None

C17_TotalsPersistAcrossEpisodes ==
    [][ /\ RlStartTaken => (total_reward' = total_reward /\ num_steps' = num_steps)
        /\ (run.inited /\ lastOp' # "rl_init") => Val(num_steps') >= Val(num_steps)
      ]_vars

\* A second episode has been started after steps that collected reward: the
\* episode's reward is 0 again, the run's totals are not.
C17_Witness ==
    /\ run.inited
    /\ lastOp = "rl_start"
    /\ run.starts = 2
    /\ run.rlSteps >= 1
    /\ episode_reward = Some(0)
    /\ total_reward # Some(run.total_reward)
    /\ Val(num_steps) > run.num_steps

\* C18: when Environment.step raises inside rl_step (called alone or by
\* rl_episode) or inside rl_env_step, the operation raises and the five
\* counters and the stored action are as they were before the call; when
\* Environment.step returns a reward r and then Agent.step or Agent.end
\* raises inside rl_step, the operation raises with num_steps and
\* num_ep_steps one larger, total_reward and episode_reward r larger, and
\* num_episodes and the stored action as they were.
C18_FailuresPropagate ==
    [][ /\ ((RlStepTaken \/ (pc = "idle" /\ lastOp' = "rl_env_step"))
             /\ calls'[1].ret = Failure)
            => /\ result'.raised
               /\ pc' = "idle"
               /\ mediator' = mediator
        /\ (RlStepTaken /\ Len(calls') = 2 /\ calls'[2].ret = Failure)
            => /\ result'.raised
               /\ pc' = "idle"
               /\ num_steps' = Some(Val(num_steps) + 1)
               /\ num_ep_steps' = Some(Val(num_ep_steps) + 1)
               /\ total_reward' = Some(Val(total_reward) + calls'[1].ret[1])
               /\ episode_reward' = Some(Val(episode_reward) + calls'[1].ret[1])
               /\ num_episodes' = num_episodes
               /\ action' = action ]_vars

\* Agent.end has raised inside an rl_step of an episode whose stored action
\* is the one Agent.start returned.
C18_Witness ==
    /\ run.inited
    /\ lastOp = "rl_step"
    /\ result.raised
    /\ Len(calls) = 2
    /\ calls[2].fn = "agent_end"
    /\ calls[2].ret = Failure
    /\ calls[1].args = <<Some(1)>>
    /\ action = Some(1)
    /\ num_ep_steps = Some(1)
    /\ episode_reward = Some(2)

\* C19: in every state after rl_init(num_steps = b), whatever rl_start,
\* rl_step, rl_episode, rl_env_start and rl_env_step calls have followed,
\* 0 <= num_ep_steps <= num_steps - b.
C19_EpisodeStepsWithinRunSteps ==
    run.inited =>
        /\ 0 <= Val(num_ep_steps)
        /\ Val(num_ep_steps) <= Val(num_steps) - run.num_steps

\* After rl_init(num_steps = 10), an rl_step, the start of an episode and a
\* non-terminal rl_env_step: the episode has one step, the run two.
C19_Witness ==
    /\ run.inited
    /\ run.num_steps = 10
    /\ lastOp = "rl_env_step"
    /\ run.starts = 1
    /\ run.rlSteps = 1
    /\ run.envStepsNonTerminal = 1
    /\ num_ep_steps = Some(1)
    /\ num_steps = Some(12)

=============================================================================
